---- MODULE Spec2Model ----
(***************************************************************************)
(* A model of ashpan's GuardedResource (src/src/guarded.rs) and of the     *)
(* Destroyable implementations it relies on (src/src/destroy.rs).          *)
(*                                                                         *)
(* A resource is a leaf handle (a natural number); the value held by a     *)
(* guard is a single leaf, a Vec of leaves or an array of leaves.  The     *)
(* leaf destroy calls an operation makes are kept, in order, in the record *)
(* of that operation (`last.calls`) and counted per leaf in `destroyed`.   *)
(***************************************************************************)
EXTENDS Naturals, Sequences, FiniteSets

\* Bounds of the model.
MaxRes == 3         \* leaf resources ever created
MaxGuards == 2      \* guards ever built by the caller or a bulk constructor
MaxLen == 3         \* length of a bulk-construction input / array size N

Resources == 1..MaxRes
GuardIds == 1..MaxGuards
\* The (destroyer, allocation_callbacks) pairs the caller constructs with.
Params ==
    {[destroyer |-> 41, allocation_callbacks |-> "None"],
     [destroyer |-> 42, allocation_callbacks |-> "cbA"]}
Errors == {"oh no", "another failure"}

VARIABLES
    guards,         \* guard id -> the guard object and its bookkeeping
    nextGuard,      \* number of guard ids given out so far
    nextRes,        \* number of leaf resources created so far
    hands,          \* leaves out of guard management after an extraction
    destroyed,      \* leaf -> number of destroy calls made on it
    pc,             \* "idle", "from" (try_new_from) or "with" (try_new_with)
    bulk,           \* the locals of the bulk constructor that is running
    last,           \* what the last bulk constructor returned
    guarded,        \* leaf -> times it was put under guard management
    handedBack      \* leaf -> times it was handed back to the caller

vars == <<guards, nextGuard, nextRes, hands, destroyed, pc, bulk, last,
          guarded, handedBack>>

----------------------------------------------------------------------------
\* Values

\* Option<T>: None is the empty sequence, Some(x) the one-element sequence.
None == <<>>

Some(x) == <<x>>

\* The shapes of Resource the guards of this model hold: a handle that a
\* device destroys, a Vec or an array of such handles, and a context object
\* (ash::Instance, ash::Device) that destroys itself.
Single(r) == [kind |-> "single", elems |-> <<r>>]

Context(r) == [kind |-> "context", elems |-> <<r>>]

Vec(s) == [kind |-> "vec", elems |-> s]

Array(s) == [kind |-> "array", elems |-> s]

\* The elements of a sequence, as a set.
Range(s) == {s[i] : i \in 1..Len(s)}

\* One recorded leaf destroy call.
DestructorCalled(r, destroyer, allocation_callbacks) ==
    [res |-> r, destroyer |-> destroyer,
     allocation_callbacks |-> allocation_callbacks]

----------------------------------------------------------------------------
\* Destroyable (src/src/destroy.rs)

\* A leaf's destroy_with: one destroy call with the destroyer and the
\* allocation callbacks it was given; the handle value itself is unchanged.
Leaf_destroy_with(self, destroyer, allocation_callbacks) ==
    [self |-> self,
     calls |-> <<DestructorCalled(self.elems[1], destroyer,
                                  allocation_callbacks)>>,
     during |-> <<>>]

\* The destroyer `()` of an instance or a device.
Unit == 0

\* A context object's destroy_with as if it passed no allocation callbacks
\* to destroy_instance / destroy_device.
Context_destroy_with_default(self, destroyer, allocation_callbacks) ==
    [self |-> self,
     calls |-> <<DestructorCalled(self.elems[1], Unit, "None")>>,
     during |-> <<>>]

\* destroy_with of ash::Instance and ash::Device:
\* self.destroy_instance(allocation_callbacks), with `_destroyer: &()` left
\* unused; the object is its own destroyer.
Context_destroy_with(self, destroyer, allocation_callbacks) ==
    [self |-> self,
     calls |-> <<DestructorCalled(self.elems[1], Unit,
                                  allocation_callbacks)>>,
     during |-> <<>>]

\* DestroyEach as if the loop body ran once more after the last element, on
\* a null handle (0).
RECURSIVE DestroyEach_once_more(_, _, _)
DestroyEach_once_more(s, destroyer, allocation_callbacks) ==
    IF s = <<>>
    THEN <<DestructorCalled(0, destroyer, allocation_callbacks)>>
    ELSE Leaf_destroy_with(Single(Head(s)), destroyer,
                           allocation_callbacks).calls
         \o DestroyEach_once_more(Tail(s), destroyer, allocation_callbacks)

\* DestroyEach as if only the first element were destroyed with the allocation
\* callbacks and the others with none.
RECURSIVE DestroyEach_default_tail(_, _, _)
DestroyEach_default_tail(s, destroyer, allocation_callbacks) ==
    IF s = <<>> THEN <<>>
    ELSE Leaf_destroy_with(Single(Head(s)), destroyer,
                           allocation_callbacks).calls
         \o DestroyEach_default_tail(Tail(s), destroyer, "None")

\* The calls made by destroying the leaves of s first to last.
RECURSIVE DestroyEach(_, _, _)
DestroyEach(s, destroyer, allocation_callbacks) ==
    IF s = <<>> THEN <<>>
    ELSE Leaf_destroy_with(Single(Head(s)), destroyer,
                           allocation_callbacks).calls
         \o DestroyEach(Tail(s), destroyer, allocation_callbacks)

\* Vec_drain as if it lent the elements out and left them in the Vec
\* (`iter_mut()`).
Vec_drain_keep(self) == [self |-> self, drained |-> self.elems]

\* Vec::drain(..): the Vec gives up all of its elements when the drain is
\* created; the drain then yields them first to last.
Vec_drain(self) == [self |-> Vec(<<>>), drained |-> self.elems]

\* Vec_destroy_with as if it drained last to first.
Vec_destroy_with_rev(self, destroyer, allocation_callbacks) ==
    LET d == Vec_drain(self)
    IN  [self |-> d.self,
         calls |-> DestroyEach([i \in 1..Len(d.drained) |->
                                   d.drained[Len(d.drained) + 1 - i]],
                               destroyer, allocation_callbacks),
         during |-> [i \in 1..Len(d.drained) |-> d.self.elems]]

\* Vec<Resource>: `for mut resource in self.drain(..)` destroys first to last
\* and leaves the Vec empty.  `during` is what the container holds after
\* each of the destroy calls.
Vec_destroy_with(self, destroyer, allocation_callbacks) ==
    LET d == Vec_drain(self)
    IN  [self |-> d.self,
         calls |-> DestroyEach(d.drained, destroyer, allocation_callbacks),
         during |-> [i \in 1..Len(d.drained) |-> d.self.elems]]

\* The array's destroy_with as if it passed no allocation callbacks on to
\* its elements.
Array_destroy_with_default(self, destroyer, allocation_callbacks) ==
    [self |-> self,
     calls |-> DestroyEach(self.elems, destroyer, "None"),
     during |-> [i \in 1..Len(self.elems) |-> self.elems]]

\* Array_destroy_with as if it iterated last to first.
Array_destroy_with_rev(self, destroyer, allocation_callbacks) ==
    [self |-> self,
     calls |-> DestroyEach([i \in 1..Len(self.elems) |->
                               self.elems[Len(self.elems) + 1 - i]],
                           destroyer, allocation_callbacks),
     during |-> [i \in 1..Len(self.elems) |-> self.elems]]

\* [Resource; N]: `for resource in self` destroys first to last through a
\* mutable borrow of the array; the array keeps its elements.
Array_destroy_with(self, destroyer, allocation_callbacks) ==
    [self |-> self,
     calls |-> DestroyEach(self.elems, destroyer, allocation_callbacks),
     during |-> [i \in 1..Len(self.elems) |-> self.elems]]

\* Static dispatch on the resource type.
destroy_with(self, destroyer, allocation_callbacks) ==
    CASE self.kind = "single" ->
            Leaf_destroy_with(self, destroyer, allocation_callbacks)
      [] self.kind = "vec" ->
            Vec_destroy_with(self, destroyer, allocation_callbacks)
      [] self.kind = "array" ->
            Array_destroy_with(self, destroyer, allocation_callbacks)
      [] self.kind = "context" ->
            Context_destroy_with(self, destroyer, allocation_callbacks)

----------------------------------------------------------------------------
\* GuardedResource (src/src/guarded.rs)

\* new() as if it stored no allocation callbacks.
GuardedResource_new_no_callbacks(resource, destroyer, allocation_callbacks) ==
    Some([resource |-> resource, destroyer |-> destroyer,
          allocation_callbacks |-> "None"])

\* GuardedResource::new: Self(Some(ResourceAndDestroyer {..})).
GuardedResource_new(resource, destroyer, allocation_callbacks) ==
    Some([resource |-> resource, destroyer |-> destroyer,
          allocation_callbacks |-> allocation_callbacks])

\* Drop::drop as if it passed no allocation callbacks to destroy_with.
GuardedResource_drop_no_callbacks(self) ==
    IF self # None
    THEN LET d == destroy_with(self[1].resource, self[1].destroyer, "None")
         IN  [self |-> Some([self[1] EXCEPT !.resource = d.self]),
              calls |-> d.calls, during |-> d.during]
    ELSE [self |-> self, calls |-> <<>>, during |-> <<>>]

\* Drop::drop on the guard's option: destroys the held resource if the option
\* is Some, and leaves the option as it is.
GuardedResource_drop(self) ==
    IF self # None
    THEN LET d == destroy_with(self[1].resource, self[1].destroyer,
                               self[1].allocation_callbacks)
         IN  [self |-> Some([self[1] EXCEPT !.resource = d.self]),
              calls |-> d.calls, during |-> d.during]
    ELSE [self |-> self, calls |-> <<>>, during |-> <<>>]

\* Option::unwrap on the guard's option: the content of a Some, a panic on
\* None.
unwrap(opt) == [panic |-> opt = None, value |-> opt]

\* take() as if it read the option (as_ref) instead of taking it: the
\* consumed guard still holds the resource when it goes out of scope.
GuardedResource_take_as_ref(self) ==
    [ret |-> self[1].resource,
     self |-> GuardedResource_drop(self).self,
     calls |-> GuardedResource_drop(self).calls]

\* GuardedResource::take: self.0.take().unwrap().resource, after which the
\* consumed guard goes out of scope (at the return, or while the panic of
\* unwrap unwinds) and its drop runs on what is left.
GuardedResource_take(self) ==
    LET left == None
        u == unwrap(self)
    IN  [panic |-> u.panic,
         ret |-> IF u.panic THEN None ELSE u.value[1].resource,
         self |-> GuardedResource_drop(left).self,
         calls |-> GuardedResource_drop(left).calls]

\* destroyer() as if it gave the unit destroyer for an empty option instead
\* of unwrapping it.
GuardedResource_destroyer_or_unit(self) ==
    [panic |-> FALSE,
     ret |-> IF self = None THEN Some(0) ELSE Some(self[1].destroyer),
     self |-> self]

\* GuardedResource::destroyer: self.0.as_ref().unwrap().destroyer.clone().
GuardedResource_destroyer(self) ==
    LET u == unwrap(self)
    IN  [panic |-> u.panic,
         ret |-> IF u.panic THEN None ELSE Some(u.value[1].destroyer),
         self |-> self]

\* allocation_callbacks() as if the guard had stored none.
GuardedResource_allocation_callbacks_none(self) ==
    LET u == unwrap(self)
    IN  [panic |-> u.panic,
         ret |-> IF u.panic THEN None ELSE Some("None"),
         self |-> self]

\* GuardedResource::allocation_callbacks:
\* self.0.as_ref().unwrap().allocation_callbacks.
GuardedResource_allocation_callbacks(self) ==
    LET u == unwrap(self)
    IN  [panic |-> u.panic,
         ret |-> IF u.panic THEN None
                 ELSE Some(u.value[1].allocation_callbacks),
         self |-> self]

\* Deref::deref: &self.0.as_ref().unwrap().resource.
GuardedResource_deref(self) ==
    LET u == unwrap(self)
    IN  [panic |-> u.panic,
         ret |-> IF u.panic THEN None ELSE Some(u.value[1].resource),
         self |-> self]

\* deref_mut and a write as if the write destroyed the resource it replaced
\* with the guard's destroyer.
GuardedResource_deref_mut_destroy_old(self, value) ==
    LET u == unwrap(self)
    IN  [panic |-> u.panic,
         ret |-> IF u.panic THEN None ELSE Some(u.value[1].resource),
         self |-> IF u.panic THEN self
                  ELSE Some([u.value[1] EXCEPT !.resource = value]),
         calls |-> IF u.panic THEN <<>>
                   ELSE destroy_with(u.value[1].resource,
                                     u.value[1].destroyer,
                                     u.value[1].allocation_callbacks).calls]

\* deref_mut as if it took the content out of the guard's option
\* (self.0.take()) to hand out the resource.
GuardedResource_deref_mut_take(self, value) ==
    LET u == unwrap(self)
    IN  [panic |-> u.panic,
         ret |-> IF u.panic THEN None ELSE Some(u.value[1].resource),
         self |-> None,
         calls |-> <<>>]

\* deref_mut as if it handed out a reference to a copy of the resource, so
\* that a write through it never reaches the guard.
GuardedResource_deref_mut_copy(self, value) ==
    LET u == unwrap(self)
    IN  [panic |-> u.panic,
         ret |-> IF u.panic THEN None ELSE Some(u.value[1].resource),
         self |-> self,
         calls |-> <<>>]

\* DerefMut::deref_mut, &mut self.0.as_mut().unwrap().resource, and
\* std::mem::replace(that reference, value): the resource in the guard
\* becomes value and the one that was there is returned.
GuardedResource_deref_mut(self, value) ==
    LET u == unwrap(self)
    IN  [panic |-> u.panic,
         ret |-> IF u.panic THEN None ELSE Some(u.value[1].resource),
         self |-> IF u.panic THEN self
                  ELSE Some([u.value[1] EXCEPT !.resource = value]),
         calls |-> <<>>]

\* A guard slot that was never used.
Unused ==
    [state |-> "unused", opt |-> None, kind |-> "none", destroyer |-> 0,
     allocation_callbacks |-> "None", removed |-> {}]

\* A guard that is gone: it was consumed by take() or went out of scope.
Gone == [Unused EXCEPT !.state = "gone"]

\* A guard just handed to the caller, with the destroyer and the allocation
\* callbacks that were supplied to build it, and the set of the leaves the
\* caller removed from it since.
Live(opt, destroyer, allocation_callbacks) ==
    [state |-> "live", opt |-> opt, kind |-> opt[1].resource.kind,
     destroyer |-> destroyer, allocation_callbacks |-> allocation_callbacks,
     removed |-> {}]

\* f with the count of every leaf of s raised by one.
Bump(f, s) == [r \in DOMAIN f |-> IF r \in Range(s) THEN f[r] + 1 ELSE f[r]]

\* The leaves of a sequence of destroy calls.
RECURSIVE Targets(_)
Targets(calls) ==
    IF calls = <<>> THEN <<>> ELSE <<Head(calls).res>> \o Targets(Tail(calls))

\* f with one more destroy call counted for every call of the sequence.
RECURSIVE Count(_, _)
Count(f, calls) ==
    IF calls = <<>> THEN f
    ELSE Count([f EXCEPT ![Head(calls).res] = @ + 1], Tail(calls))

NoBulk ==
    [id |-> 0, input |-> <<>>, destroyer |-> 0,
     allocation_callbacks |-> "None", pulled |-> 0, guard |-> None,
     resources |-> <<>>, factoryCalls |-> <<>>]

\* The record of the operation that returned last: what it was applied to
\* (guard, shape, n, held, removed, input, destroyer, allocation_callbacks),
\* what it returned (status, err, ret, after), the destroy calls it made and
\* what the destroyed container held after each of them (during); for a
\* convenience constructor, the allocation callbacks that each call of a
\* creation primitive received (primitive); for an access, the guard's
\* option as it was before (before) and whether the access panicked (panic).
NoLast ==
    [kind |-> "none", status |-> "none", err |-> "", guard |-> 0,
     shape |-> "none", n |-> 0, input |-> <<>>, destroyer |-> 0,
     allocation_callbacks |-> "None", pulled |-> 0, factoryCalls |-> <<>>,
     held |-> <<>>, removed |-> {}, ret |-> <<>>, after |-> None,
     calls |-> <<>>, during |-> <<>>, primitive |-> <<>>, before |-> None,
     panic |-> FALSE]

Init ==
    /\ guards = [g \in GuardIds |-> Unused]
    /\ nextGuard = 0
    /\ nextRes = 0
    /\ hands = {}
    /\ destroyed = [r \in Resources |-> 0]
    /\ pc = "idle"
    /\ bulk = NoBulk
    /\ last = NoLast
    /\ guarded = [r \in Resources |-> 0]
    /\ handedBack = [r \in Resources |-> 0]

\* The leaves the caller can pass to new(): a freshly created one, or one
\* that an extraction took out of guard management.
Available == hands \cup (IF nextRes < MaxRes THEN {nextRes + 1} ELSE {})

\* GuardedResource::new(resource, destroyer, allocation_callbacks) on a leaf.
New(r, destroyer, allocation_callbacks) ==
    /\ pc = "idle"
    /\ nextGuard < MaxGuards
    /\ r \in Available
    /\ guards' = [guards EXCEPT ![nextGuard + 1] =
          Live(GuardedResource_new(Single(r), destroyer,
                                   allocation_callbacks),
               destroyer, allocation_callbacks)]
    /\ nextGuard' = nextGuard + 1
    /\ nextRes' = IF r > nextRes THEN r ELSE nextRes
    /\ hands' = hands \ {r}
    /\ guarded' = Bump(guarded, <<r>>)
    /\ last' = [NoLast EXCEPT !.kind = "new"]
    /\ UNCHANGED <<destroyed, pc, bulk, handedBack>>

\* GuardedResource::new on a Vec of n freshly created leaves.
NewVec(n, destroyer, allocation_callbacks) ==
    /\ pc = "idle"
    /\ nextGuard < MaxGuards
    /\ nextRes + n <= MaxRes
    /\ LET s == [i \in 1..n |-> nextRes + i]
       IN  /\ guards' = [guards EXCEPT ![nextGuard + 1] =
                 Live(GuardedResource_new(Vec(s), destroyer,
                                          allocation_callbacks),
                      destroyer, allocation_callbacks)]
           /\ guarded' = Bump(guarded, s)
           /\ last' = [NoLast EXCEPT !.kind = "new"]
    /\ nextGuard' = nextGuard + 1
    /\ nextRes' = nextRes + n
    /\ UNCHANGED <<hands, destroyed, pc, bulk, handedBack>>

\* guard.take(): the caller receives the resource, the guard is consumed.
\* What the caller does with an instance or a device it holds bare is not
\* followed, so take() is followed on the guards of device-owned resources.
Take(g) ==
    /\ pc = "idle"
    /\ guards[g].state = "live"
    /\ guards[g].kind # "context"
    /\ LET t == GuardedResource_take(guards[g].opt)
       IN  /\ guards' = [guards EXCEPT ![g] = Gone]
           /\ destroyed' = Count(destroyed, t.calls)
           /\ hands' = hands \cup Range(t.ret.elems)
           /\ handedBack' = Bump(handedBack, t.ret.elems)
           /\ last' = [NoLast EXCEPT
                 !.kind = "take", !.guard = g, !.shape = guards[g].kind,
                 !.held = guards[g].opt[1].resource.elems,
                 !.destroyer = guards[g].destroyer,
                 !.allocation_callbacks = guards[g].allocation_callbacks,
                 !.ret = t.ret.elems, !.after = t.self, !.calls = t.calls,
                 !.before = guards[g].opt]
    /\ UNCHANGED <<nextGuard, nextRes, pc, bulk, guarded>>

\* Drop as if the guard stayed with the caller after its drop had run.
Drop_keeps_guard(g) ==
    /\ pc = "idle"
    /\ guards[g].state = "live"
    /\ LET d == GuardedResource_drop(guards[g].opt)
       IN  /\ guards' = [guards EXCEPT ![g].opt = d.self]
           /\ destroyed' = Count(destroyed, d.calls)
           /\ last' = [NoLast EXCEPT
                 !.kind = "drop", !.guard = g, !.shape = guards[g].kind,
                 !.held = guards[g].opt[1].resource.elems,
                 !.removed = guards[g].removed,
                 !.destroyer = guards[g].destroyer,
                 !.allocation_callbacks = guards[g].allocation_callbacks,
                 !.after = d.self, !.calls = d.calls, !.during = d.during]
    /\ UNCHANGED <<nextGuard, nextRes, hands, pc, bulk, guarded,
                   handedBack>>

\* The guard goes out of scope (or drop(guard) is called).
Drop(g) ==
    /\ pc = "idle"
    /\ guards[g].state = "live"
    /\ LET d == GuardedResource_drop(guards[g].opt)
       IN  /\ guards' = [guards EXCEPT ![g] = Gone]
           /\ destroyed' = Count(destroyed, d.calls)
           /\ last' = [NoLast EXCEPT
                 !.kind = "drop", !.guard = g, !.shape = guards[g].kind,
                 !.held = guards[g].opt[1].resource.elems,
                 !.removed = guards[g].removed,
                 !.destroyer = guards[g].destroyer,
                 !.allocation_callbacks = guards[g].allocation_callbacks,
                 !.after = d.self, !.calls = d.calls, !.during = d.during]
    /\ UNCHANGED <<nextGuard, nextRes, hands, pc, bulk, guarded,
                   handedBack>>

\* The caller drops the raw value that take() or pop() just returned, as in
\* `drop(resource.take())`.  A leaf has no Drop of its own, so nothing is
\* called; the handle stays out of guard management.
DropRaw ==
    /\ pc = "idle"
    /\ last.kind \in {"take", "pop"}
    /\ last.ret # <<>>
    /\ last' = [NoLast EXCEPT !.kind = "dropraw", !.held = last.ret]
    /\ UNCHANGED <<guards, nextGuard, nextRes, hands, destroyed, pc, bulk,
                   guarded, handedBack>>

\* guard.destroyer() on a live guard.
Destroyer(g) ==
    /\ pc = "idle"
    /\ guards[g].state = "live"
    /\ LET a == GuardedResource_destroyer(guards[g].opt)
       IN  /\ ~a.panic
           /\ guards' = [guards EXCEPT ![g].opt = a.self]
           /\ last' = [NoLast EXCEPT
                 !.kind = "destroyer", !.guard = g, !.ret = a.ret,
                 !.before = guards[g].opt,
                 !.destroyer = guards[g].destroyer,
                 !.allocation_callbacks = guards[g].allocation_callbacks]
    /\ UNCHANGED <<nextGuard, nextRes, hands, destroyed, pc, bulk, guarded,
                   handedBack>>

\* guard.allocation_callbacks() on a live guard.
AllocationCallbacks(g) ==
    /\ pc = "idle"
    /\ guards[g].state = "live"
    /\ LET a == GuardedResource_allocation_callbacks(guards[g].opt)
       IN  /\ ~a.panic
           /\ guards' = [guards EXCEPT ![g].opt = a.self]
           /\ last' = [NoLast EXCEPT
                 !.kind = "allocation_callbacks", !.guard = g,
                 !.ret = a.ret, !.before = guards[g].opt,
                 !.destroyer = guards[g].destroyer,
                 !.allocation_callbacks = guards[g].allocation_callbacks]
    /\ UNCHANGED <<nextGuard, nextRes, hands, destroyed, pc, bulk, guarded,
                   handedBack>>

\* What a caller reads from the &Vec that deref hands out: its length
\* (pipelines.len()), the element at index i (guarded[i]) and the elements
\* that an iteration over it yields, first to last.
Vec_len(elems) == Len(elems)

Vec_index(elems, i) == elems[i + 1]

Vec_iter(elems) == [k \in 1..Vec_len(elems) |-> Vec_index(elems, k - 1)]

\* A read as if it moved the elements out of a Vec guard (an iteration by
\* drain(..)).
Deref_drain(g) ==
    /\ pc = "idle"
    /\ guards[g].state = "live"
    /\ LET a == GuardedResource_deref(guards[g].opt)
       IN  /\ ~a.panic
           /\ guards' = [guards EXCEPT
                 ![g].opt = IF guards[g].kind = "vec"
                            THEN Some([a.self[1] EXCEPT
                                         !.resource.elems = <<>>])
                            ELSE a.self]
           /\ last' = [NoLast EXCEPT
                 !.kind = "deref", !.guard = g, !.shape = guards[g].kind,
                 !.ret = a.ret[1].elems, !.before = guards[g].opt,
                 !.destroyer = guards[g].destroyer,
                 !.allocation_callbacks = guards[g].allocation_callbacks]
    /\ UNCHANGED <<nextGuard, nextRes, hands, destroyed, pc, bulk, guarded,
                   handedBack>>

\* A read of the held resource through the guard: *guard, guard.as_ref(),
\* guard.borrow(), a method call on the resource.
Deref(g) ==
    /\ pc = "idle"
    /\ guards[g].state = "live"
    /\ LET a == GuardedResource_deref(guards[g].opt)
       IN  /\ ~a.panic
           /\ guards' = [guards EXCEPT ![g].opt = a.self]
           /\ last' = [NoLast EXCEPT
                 !.kind = "deref", !.guard = g, !.shape = guards[g].kind,
                 !.ret = a.ret[1].elems, !.before = guards[g].opt,
                 !.destroyer = guards[g].destroyer,
                 !.allocation_callbacks = guards[g].allocation_callbacks]
    /\ UNCHANGED <<nextGuard, nextRes, hands, destroyed, pc, bulk, guarded,
                   handedBack>>

\* A write to the held resource through the guard, on a guard of one leaf:
\* std::mem::replace(&mut *guard, fresh), guard.set_value(..). The caller
\* gets the leaf that was there and the guard holds the fresh one.
DerefMut(g) ==
    /\ pc = "idle"
    /\ guards[g].state = "live"
    /\ guards[g].kind = "single"
    /\ nextRes < MaxRes
    /\ LET value == Single(nextRes + 1)
           a == GuardedResource_deref_mut(guards[g].opt, value)
       IN  /\ ~a.panic
           /\ guards' = [guards EXCEPT
                 ![g].opt = a.self,
                 ![g].removed = @ \cup Range(a.ret[1].elems)]
           /\ destroyed' = Count(destroyed, a.calls)
           /\ hands' = hands \cup Range(a.ret[1].elems)
           /\ handedBack' = Bump(handedBack, a.ret[1].elems)
           /\ guarded' = Bump(guarded, value.elems)
           /\ last' = [NoLast EXCEPT
                 !.kind = "deref_mut", !.guard = g, !.shape = guards[g].kind,
                 !.input = value.elems, !.ret = a.ret[1].elems,
                 !.before = guards[g].opt, !.calls = a.calls,
                 !.destroyer = guards[g].destroyer,
                 !.allocation_callbacks = guards[g].allocation_callbacks]
    /\ nextRes' = nextRes + 1
    /\ UNCHANGED <<nextGuard, pc, bulk>>

\* A pop that returns the last element and leaves it in the Vec
\* (`last().copied()`).
Vec_pop_keep(elems) ==
    IF elems = <<>> THEN [ret |-> None, elems |-> elems]
    ELSE [ret |-> Some(elems[Len(elems)]), elems |-> elems]

\* Vec::pop: the last element, if any, leaves the Vec and is returned.
Vec_pop(elems) ==
    IF elems = <<>> THEN [ret |-> None, elems |-> elems]
    ELSE [ret |-> Some(elems[Len(elems)]),
          elems |-> SubSeq(elems, 1, Len(elems) - 1)]

\* guard.pop() on a Vec guard, through DerefMut.
Pop(g) ==
    /\ pc = "idle"
    /\ guards[g].state = "live"
    /\ guards[g].kind = "vec"
    /\ LET p == Vec_pop(guards[g].opt[1].resource.elems)
       IN  /\ guards' = [guards EXCEPT
                 ![g].opt[1].resource.elems = p.elems,
                 ![g].removed = @ \cup Range(p.ret)]
           /\ hands' = hands \cup Range(p.ret)
           /\ handedBack' = Bump(handedBack, p.ret)
           /\ last' = [NoLast EXCEPT
                 !.kind = "pop", !.guard = g, !.shape = "vec",
                 !.held = guards[g].opt[1].resource.elems, !.ret = p.ret,
                 !.before = guards[g].opt]
    /\ UNCHANGED <<nextGuard, nextRes, destroyed, pc, bulk,
                   guarded>>

----------------------------------------------------------------------------
\* Bulk construction

\* The items an input iterator or a resource factory can produce.
Ok(res) == [ok |-> TRUE, res |-> res, err |-> ""]

Err(e) == [ok |-> FALSE, res |-> 0, err |-> e]

\* try_new_from, up to the loop: the guard over an empty Vec is built first.
\* The input is lazy: its items are produced when the loop pulls them.
StartTryNewFrom(destroyer, allocation_callbacks) ==
    /\ pc = "idle"
    /\ nextGuard < MaxGuards
    /\ pc' = "from"
    /\ bulk' = [NoBulk EXCEPT
          !.id = nextGuard + 1,
          !.destroyer = destroyer,
          !.allocation_callbacks = allocation_callbacks,
          !.guard = GuardedResource_new(Vec(<<>>), destroyer,
                                        allocation_callbacks)]
    /\ nextGuard' = nextGuard + 1
    /\ last' = NoLast
    /\ UNCHANGED <<guards, nextRes, hands, destroyed, guarded,
                   handedBack>>

\* try_new_from_push as if the resource were kept aside and not pushed
\* while the loop runs.
try_new_from_push_later(guard, res) == guard

\* try_new_from_push as if the resource were inserted at the front.
try_new_from_push_front(guard, res) ==
    Some([guard[1] EXCEPT !.resource.elems = <<res>> \o @])

\* One turn of `for resource in resources { guarded_resources.push(resource?) }`
\* on an Ok item: the resource is pushed through the guard.
try_new_from_push(guard, res) ==
    Some([guard[1] EXCEPT !.resource.elems = Append(@, res)])

TryNewFromPush ==
    /\ pc = "from"
    /\ bulk.pulled < MaxLen
    /\ nextRes < MaxRes
    /\ LET item == Ok(nextRes + 1)
       IN  /\ bulk' = [bulk EXCEPT
                 !.input = Append(@, item),
                 !.pulled = @ + 1,
                 !.guard = try_new_from_push(bulk.guard, item.res)]
           /\ guarded' = Bump(guarded, <<item.res>>)
    /\ nextRes' = nextRes + 1
    /\ UNCHANGED <<guards, nextGuard, hands, destroyed, pc, last,
                   handedBack>>

\* try_new_from's error return as if the local guard were forgotten
\* (mem::forget) instead of dropped.
try_new_from_fail_forget(guard, item) ==
    [err |-> item.err, after |-> guard, calls |-> <<>>, during |-> <<>>]

\* What `resource?` returns with on an Err item: the error, after the local
\* guard went out of scope.
try_new_from_fail(guard, item) ==
    [err |-> item.err, after |-> GuardedResource_drop(guard).self,
     calls |-> GuardedResource_drop(guard).calls,
     during |-> GuardedResource_drop(guard).during]

\* The loop as if it skipped an Err item and went on pulling.
TryNewFromFail_skip(e) ==
    /\ pc = "from"
    /\ bulk.pulled < MaxLen
    /\ bulk' = [bulk EXCEPT !.input = Append(@, Err(e)), !.pulled = @ + 1]
    /\ UNCHANGED <<guards, nextGuard, nextRes, hands, destroyed,
                   pc, last, guarded, handedBack>>

TryNewFromFail(e) ==
    /\ pc = "from"
    /\ bulk.pulled < MaxLen
    /\ LET f == try_new_from_fail(bulk.guard, Err(e))
       IN  /\ destroyed' = Count(destroyed, f.calls)
           /\ last' = [NoLast EXCEPT
                 !.kind = "from", !.status = "failed", !.err = f.err,
                 !.guard = bulk.id, !.shape = "vec",
                 !.input = Append(bulk.input, Err(e)),
                 !.destroyer = bulk.destroyer,
                 !.allocation_callbacks = bulk.allocation_callbacks,
                 !.pulled = bulk.pulled + 1,
                 !.held = bulk.guard[1].resource.elems,
                 !.after = f.after, !.calls = f.calls, !.during = f.during]
    /\ guards' = [guards EXCEPT ![bulk.id] = Gone]
    /\ pc' = "idle"
    /\ bulk' = NoBulk
    /\ UNCHANGED <<nextGuard, nextRes, hands, guarded,
                   handedBack>>

\* The iterator is exhausted: Ok(guarded_resources).
TryNewFromFinish ==
    /\ pc = "from"
    /\ guards' = [guards EXCEPT ![bulk.id] =
          Live(bulk.guard, bulk.destroyer, bulk.allocation_callbacks)]
    /\ last' = [NoLast EXCEPT
          !.kind = "from", !.status = "complete", !.guard = bulk.id,
          !.shape = "vec", !.input = bulk.input,
          !.destroyer = bulk.destroyer,
          !.allocation_callbacks = bulk.allocation_callbacks,
          !.pulled = bulk.pulled, !.held = bulk.guard[1].resource.elems]
    /\ pc' = "idle"
    /\ bulk' = NoBulk
    /\ UNCHANGED <<nextGuard, nextRes, hands, destroyed, guarded,
                   handedBack>>

\* try_new_with for an array of n elements, up to the loop:
\* `[(); N].map(|_| None)`.  What the factory returns is decided when it is
\* called.
StartTryNewWith(n, destroyer, allocation_callbacks) ==
    /\ pc = "idle"
    /\ nextGuard < MaxGuards
    /\ pc' = "with"
    /\ bulk' = [NoBulk EXCEPT
          !.id = nextGuard + 1,
          !.destroyer = destroyer,
          !.allocation_callbacks = allocation_callbacks,
          !.resources = [i \in 1..n |-> None]]
    /\ nextGuard' = nextGuard + 1
    /\ last' = NoLast
    /\ UNCHANGED <<guards, nextRes, hands, destroyed, guarded,
                   handedBack>>

\* try_new_with_wrap as if every new guard were stored in the first slot.
try_new_with_wrap_first(resources, i, res, destroyer, allocation_callbacks) ==
    [resources EXCEPT ![1] =
        Some(GuardedResource_new(Single(res), destroyer,
                                 allocation_callbacks))]

\* One turn of the loop with resource_factory(i) = Ok(res): slot i becomes
\* Some(GuardedResource::new(res, &*destroyer, allocation_callbacks)).
try_new_with_wrap(resources, i, res, destroyer, allocation_callbacks) ==
    [resources EXCEPT ![i + 1] =
        Some(GuardedResource_new(Single(res), destroyer,
                                 allocation_callbacks))]

TryNewWithWrap ==
    /\ pc = "with"
    /\ Len(bulk.factoryCalls) < Len(bulk.resources)
    /\ nextRes < MaxRes
    /\ LET i == Len(bulk.factoryCalls)
           item == Ok(nextRes + 1)
       IN  /\ bulk' = [bulk EXCEPT
                 !.input = Append(@, item),
                 !.factoryCalls = Append(@, i),
                 !.resources = try_new_with_wrap(bulk.resources, i, item.res,
                                  bulk.destroyer, bulk.allocation_callbacks)]
           /\ guarded' = Bump(guarded, <<item.res>>)
    /\ nextRes' = nextRes + 1
    /\ UNCHANGED <<guards, nextGuard, hands, destroyed, pc, last,
                   handedBack>>

\* drop_resources as if the elements were dropped last to first.
RECURSIVE drop_resources_rev(_)
drop_resources_rev(resources) ==
    IF resources = <<>> THEN <<>>
    ELSE drop_resources_rev(Tail(resources))
         \o (IF Head(resources) = None THEN <<>>
             ELSE GuardedResource_drop(Head(resources)[1]).calls)

\* The local array of Option<GuardedResource> goes out of scope: its elements
\* are dropped first to last, a None slot drops nothing.
RECURSIVE drop_resources(_)
drop_resources(resources) ==
    IF resources = <<>> THEN <<>>
    ELSE (IF Head(resources) = None THEN <<>>
          ELSE GuardedResource_drop(Head(resources)[1]).calls)
         \o drop_resources(Tail(resources))

\* try_new_with_fail as if a fixed error replaced the factory's.
try_new_with_fail_other(resources, item) ==
    [err |-> "another failure", calls |-> drop_resources(resources)]

\* What `resource_factory(i)?` returns with on an Err: the error, after the
\* local array went out of scope.
try_new_with_fail(resources, item) ==
    [err |-> item.err, calls |-> drop_resources(resources)]

\* The leaves held by the transient guards of the local array, in slot order.
RECURSIVE HeldBy(_)
HeldBy(resources) ==
    IF resources = <<>> THEN <<>>
    ELSE (IF Head(resources) = None THEN <<>>
          ELSE Head(resources)[1][1].resource.elems)
         \o HeldBy(Tail(resources))

TryNewWithFail(e) ==
    /\ pc = "with"
    /\ Len(bulk.factoryCalls) < Len(bulk.resources)
    /\ LET i == Len(bulk.factoryCalls)
           f == try_new_with_fail(bulk.resources, Err(e))
       IN  /\ destroyed' = Count(destroyed, f.calls)
           /\ last' = [NoLast EXCEPT
                 !.kind = "with", !.status = "failed", !.err = f.err,
                 !.guard = bulk.id, !.shape = "array",
                 !.n = Len(bulk.resources),
                 !.input = Append(bulk.input, Err(e)),
                 !.destroyer = bulk.destroyer,
                 !.allocation_callbacks = bulk.allocation_callbacks,
                 !.factoryCalls = Append(bulk.factoryCalls, i),
                 !.held = HeldBy(bulk.resources), !.calls = f.calls]
    /\ guards' = [guards EXCEPT ![bulk.id] = Gone]
    /\ pc' = "idle"
    /\ bulk' = NoBulk
    /\ UNCHANGED <<nextGuard, nextRes, hands, guarded,
                   handedBack>>

\* take_resources as if the array were assembled last to first.
RECURSIVE take_resources_rev(_)
take_resources_rev(resources) ==
    IF resources = <<>> THEN [elems |-> <<>>, calls |-> <<>>]
    ELSE LET t == GuardedResource_take(Head(resources)[1])
             rest == take_resources_rev(Tail(resources))
         IN  [elems |-> rest.elems \o t.ret.elems,
              calls |-> rest.calls \o t.calls]

\* `resources.map(|resource| resource.expect(..).take())`: every transient
\* guard is taken, first to last.
RECURSIVE take_resources(_)
take_resources(resources) ==
    IF resources = <<>> THEN [elems |-> <<>>, calls |-> <<>>]
    ELSE LET t == GuardedResource_take(Head(resources)[1])
             rest == take_resources(Tail(resources))
         IN  [elems |-> t.ret.elems \o rest.elems,
              calls |-> t.calls \o rest.calls]

\* try_new_with_finish as if the transient guards were not taken but went
\* out of scope after their resources were copied into the array.
try_new_with_finish_no_take(resources, destroyer, allocation_callbacks) ==
    [guard |-> GuardedResource_new(Array(HeldBy(resources)), destroyer,
                                   allocation_callbacks),
     calls |-> drop_resources(resources)]

\* The end of try_new_with: Ok(Self::new(resources, destroyer, ..)).
try_new_with_finish(resources, destroyer, allocation_callbacks) ==
    LET t == take_resources(resources)
    IN  [guard |-> GuardedResource_new(Array(t.elems), destroyer,
                                       allocation_callbacks),
         calls |-> t.calls]

\* The for loop of try_new_from over the items that are left, as one
\* function: what the call returns and the destroy calls it makes.
RECURSIVE try_new_from_loop(_, _)
try_new_from_loop(guard, input) ==
    IF input = <<>>
    THEN [ok |-> TRUE, err |-> "", guard |-> guard, calls |-> <<>>]
    ELSE IF Head(input).ok
         THEN try_new_from_loop(try_new_from_push(guard, Head(input).res),
                                Tail(input))
         ELSE LET f == try_new_from_fail(guard, Head(input))
              IN  [ok |-> FALSE, err |-> f.err, guard |-> None,
                   calls |-> f.calls]

\* GuardedResource::try_new_from(resources, destroyer, allocation_callbacks)
\* on the finite input `resources`.
try_new_from(resources, destroyer, allocation_callbacks) ==
    try_new_from_loop(
        GuardedResource_new(Vec(<<>>), destroyer, allocation_callbacks),
        resources)

\* The for loop of try_new_with from index i on, and what follows it, as
\* one function; results are what resource_factory returns for i, i+1, ...
RECURSIVE try_new_with_loop(_, _, _, _, _)
try_new_with_loop(resources, i, results, destroyer, allocation_callbacks) ==
    IF i = Len(resources)
    THEN LET f == try_new_with_finish(resources, destroyer,
                                      allocation_callbacks)
         IN  [ok |-> TRUE, err |-> "", guard |-> f.guard, calls |-> f.calls]
    ELSE IF Head(results).ok
         THEN try_new_with_loop(
                  try_new_with_wrap(resources, i, Head(results).res,
                                    destroyer, allocation_callbacks),
                  i + 1, Tail(results), destroyer, allocation_callbacks)
         ELSE LET f == try_new_with_fail(resources, Head(results))
              IN  [ok |-> FALSE, err |-> f.err, guard |-> None,
                   calls |-> f.calls]

\* GuardedResource::try_new_with(resource_factory, destroyer,
\* allocation_callbacks) for an array of n elements, with a factory that
\* returns results[i + 1] for index i.
try_new_with(n, results, destroyer, allocation_callbacks) ==
    try_new_with_loop([i \in 1..n |-> None], 0, results, destroyer,
                      allocation_callbacks)

TryNewWithFinish ==
    /\ pc = "with"
    /\ Len(bulk.factoryCalls) = Len(bulk.resources)
    /\ LET f == try_new_with_finish(bulk.resources, bulk.destroyer,
                                    bulk.allocation_callbacks)
       IN  /\ guards' = [guards EXCEPT ![bulk.id] =
                 Live(f.guard, bulk.destroyer, bulk.allocation_callbacks)]
           /\ destroyed' = Count(destroyed, f.calls)
           /\ last' = [NoLast EXCEPT
                 !.kind = "with", !.status = "complete",
                 !.guard = bulk.id, !.shape = "array",
                 !.n = Len(bulk.resources),
                 !.input = bulk.input, !.destroyer = bulk.destroyer,
                 !.allocation_callbacks = bulk.allocation_callbacks,
                 !.factoryCalls = bulk.factoryCalls,
                 !.held = HeldBy(bulk.resources), !.calls = f.calls]
    /\ pc' = "idle"
    /\ bulk' = NoBulk
    /\ UNCHANGED <<nextGuard, nextRes, hands, guarded,
                   handedBack>>

----------------------------------------------------------------------------
\* Convenience constructors (src/src/device.rs, entry.rs, instance.rs)

\* How a creation primitive of ash can end: with success, or with one of the
\* errors.
Outcomes == {""} \cup Errors

\* What a creation primitive of ash returns for one resource when it ends
\* with the given outcome: the next fresh handle, or the error.
CreateResult(outcome) ==
    IF outcome = "" THEN Ok(nextRes + 1) ELSE Err(outcome)

\* create_guarded as if the guard were built without allocation callbacks.
create_guarded_no_callbacks(self, allocation_callbacks, result) ==
    [primitive |-> <<allocation_callbacks>>,
     ok |-> result.ok, err |-> result.err,
     guard |-> IF result.ok
               THEN GuardedResource_new(Single(result.res), self, "None")
               ELSE None]

\* A device method of the definition! macro (create_guarded_buffer, ...):
\* `let resource = self.$create(create_info, allocation_callbacks)?;
\*  Ok(GuardedResource::new(resource, self.clone(), allocation_callbacks))`.
\* `result` is what the creation primitive returned.
create_guarded(self, allocation_callbacks, result) ==
    [primitive |-> <<allocation_callbacks>>,
     ok |-> result.ok, err |-> result.err,
     guard |-> IF result.ok
               THEN GuardedResource_new(Single(result.res), self,
                                        allocation_callbacks)
               ELSE None]

\* EntryExt::create_guarded_instance: the guard's destroyer is `&()`.
create_guarded_instance(allocation_callbacks, result) ==
    [primitive |-> <<allocation_callbacks>>,
     ok |-> result.ok, err |-> result.err,
     guard |-> IF result.ok
               THEN GuardedResource_new(Context(result.res), Unit,
                                        allocation_callbacks)
               ELSE None]

\* InstanceExt::create_guarded_device: the guard's destroyer is `&()`.
create_guarded_device(allocation_callbacks, result) ==
    [primitive |-> <<allocation_callbacks>>,
     ok |-> result.ok, err |-> result.err,
     guard |-> IF result.ok
               THEN GuardedResource_new(Context(result.res), Unit,
                                        allocation_callbacks)
               ELSE None]

\* The caller's state after a convenience constructor returned c: on Ok the
\* caller holds the new guard, on Err nothing was built.
Created(kind, c, destroyer, allocation_callbacks, result) ==
    /\ guards' = IF c.ok
                 THEN [guards EXCEPT ![nextGuard + 1] =
                          Live(c.guard, destroyer, allocation_callbacks)]
                 ELSE guards
    /\ nextGuard' = IF c.ok THEN nextGuard + 1 ELSE nextGuard
    /\ nextRes' = IF c.ok THEN result.res ELSE nextRes
    /\ guarded' = IF c.ok THEN Bump(guarded, <<result.res>>) ELSE guarded
    /\ last' = [NoLast EXCEPT
          !.kind = kind,
          !.status = IF c.ok THEN "complete" ELSE "failed",
          !.err = c.err,
          !.guard = IF c.ok THEN nextGuard + 1 ELSE 0,
          !.shape = IF kind = "create" THEN "single" ELSE "context",
          !.input = <<result>>,
          !.destroyer = destroyer,
          !.allocation_callbacks = allocation_callbacks,
          !.primitive = c.primitive]
    /\ UNCHANGED <<hands, destroyed, pc, bulk, handedBack>>

\* device.create_guarded_*(create_info, allocation_callbacks) and
\* device.allocate_guarded_memory(..) on the device `self`.
CreateGuarded(self, allocation_callbacks, outcome) ==
    /\ pc = "idle"
    /\ nextGuard < MaxGuards
    /\ outcome = "" => nextRes < MaxRes
    /\ LET result == CreateResult(outcome)
       IN  Created("create",
                   create_guarded(self, allocation_callbacks, result),
                   self, allocation_callbacks, result)

\* entry.create_guarded_instance(create_info, allocation_callbacks).
CreateGuardedInstance(allocation_callbacks, outcome) ==
    /\ pc = "idle"
    /\ nextGuard < MaxGuards
    /\ outcome = "" => nextRes < MaxRes
    /\ LET result == CreateResult(outcome)
       IN  Created("create_instance",
                   create_guarded_instance(allocation_callbacks, result),
                   Unit, allocation_callbacks, result)

\* instance.create_guarded_device(physical_device, create_info,
\* allocation_callbacks).
CreateGuardedDevice(allocation_callbacks, outcome) ==
    /\ pc = "idle"
    /\ nextGuard < MaxGuards
    /\ outcome = "" => nextRes < MaxRes
    /\ LET result == CreateResult(outcome)
       IN  Created("create_device",
                   create_guarded_device(allocation_callbacks, result),
                   Unit, allocation_callbacks, result)

\* What create_graphics_pipelines / create_compute_pipelines of ash returns
\* when it has created n pipelines and ends with the given outcome: the Vec
\* of the fresh pipelines, alone (Ok) or with the error (Err).
PipelinesResult(n, outcome) ==
    [ok |-> outcome = "", res |-> [i \in 1..n |-> nextRes + i],
     err |-> outcome]

\* create_guarded_graphics_pipelines as if map_err passed the pipelines of a
\* failure on unguarded, next to a guard over nothing.
create_guarded_graphics_pipelines_bare(self, allocation_callbacks, result) ==
    LET guard(pipelines) ==
            GuardedResource_new(Vec(pipelines), self, allocation_callbacks)
    IN  [primitive |-> <<allocation_callbacks>>,
         ok |-> result.ok, err |-> result.err,
         guard |-> IF result.ok THEN guard(result.res) ELSE guard(<<>>)]

\* create_guarded_graphics_pipelines: the pipelines of the primitive's result
\* are guarded in both cases,
\* `.map(guard).map_err(|(pipelines, result)| (guard(pipelines), result))`.
create_guarded_graphics_pipelines(self, allocation_callbacks, result) ==
    LET guard(pipelines) ==
            GuardedResource_new(Vec(pipelines), self, allocation_callbacks)
    IN  [primitive |-> <<allocation_callbacks>>,
         ok |-> result.ok, err |-> result.err,
         guard |-> guard(result.res)]

\* create_guarded_compute_pipelines: the same for compute pipelines.
create_guarded_compute_pipelines(self, allocation_callbacks, result) ==
    LET guard(pipelines) ==
            GuardedResource_new(Vec(pipelines), self, allocation_callbacks)
    IN  [primitive |-> <<allocation_callbacks>>,
         ok |-> result.ok, err |-> result.err,
         guard |-> guard(result.res)]

\* The caller's state after a pipelines constructor returned c: the caller
\* holds the guard, as the Ok value or inside the Err value.
PipelinesCreated(kind, c, destroyer, allocation_callbacks, result) ==
    /\ guards' = [guards EXCEPT ![nextGuard + 1] =
          Live(c.guard, destroyer, allocation_callbacks)]
    /\ nextGuard' = nextGuard + 1
    /\ nextRes' = nextRes + Len(result.res)
    /\ guarded' = Bump(guarded, c.guard[1].resource.elems)
    /\ last' = [NoLast EXCEPT
          !.kind = kind,
          !.status = IF c.ok THEN "complete" ELSE "failed",
          !.err = c.err, !.guard = nextGuard + 1,
          !.shape = "vec", !.input = <<result>>,
          !.held = c.guard[1].resource.elems,
          !.destroyer = destroyer,
          !.allocation_callbacks = allocation_callbacks,
          !.primitive = c.primitive]
    /\ UNCHANGED <<hands, destroyed, pc, bulk, handedBack>>

\* device.create_guarded_graphics_pipelines(pipeline_cache, create_infos,
\* allocation_callbacks) on the device `self`.
CreateGuardedGraphicsPipelines(self, allocation_callbacks, n, outcome) ==
    /\ pc = "idle"
    /\ nextGuard < MaxGuards
    /\ nextRes + n <= MaxRes
    /\ LET result == PipelinesResult(n, outcome)
       IN  PipelinesCreated("graphics_pipelines",
              create_guarded_graphics_pipelines(self, allocation_callbacks, result),
              self, allocation_callbacks, result)

\* device.create_guarded_compute_pipelines(pipeline_cache, create_infos,
\* allocation_callbacks) on the device `self`.
CreateGuardedComputePipelines(self, allocation_callbacks, n, outcome) ==
    /\ pc = "idle"
    /\ nextGuard < MaxGuards
    /\ nextRes + n <= MaxRes
    /\ LET result == PipelinesResult(n, outcome)
       IN  PipelinesCreated("compute_pipelines",
              create_guarded_compute_pipelines(self, allocation_callbacks, result),
              self, allocation_callbacks, result)

\* The caller discards the guard of a failed pipelines constructor and keeps
\* the error, `.map_err(|(_, err)| err)`: the guard goes out of scope.
MapErrDiscard ==
    /\ pc = "idle"
    /\ last.kind \in {"graphics_pipelines", "compute_pipelines"}
    /\ last.status = "failed"
    /\ LET g == last.guard
           d == GuardedResource_drop(guards[g].opt)
       IN  /\ guards' = [guards EXCEPT ![g] = Gone]
           /\ destroyed' = Count(destroyed, d.calls)
           /\ last' = [NoLast EXCEPT
                 !.kind = "map_err", !.err = last.err, !.guard = g,
                 !.shape = "vec", !.input = last.input,
                 !.held = guards[g].opt[1].resource.elems,
                 !.destroyer = guards[g].destroyer,
                 !.allocation_callbacks = guards[g].allocation_callbacks,
                 !.after = d.self, !.calls = d.calls, !.during = d.during]
    /\ UNCHANGED <<nextGuard, nextRes, hands, pc, bulk, guarded,
                   handedBack>>

\* The (destroyer, allocation_callbacks) pairs the caller can construct with
\* now.  The caller works with one allocator at a time, as create_resources
\* in the crate documentation does: the guards that are live together were
\* built with the same allocation callbacks.
Usable ==
    {p \in Params :
        \A g \in GuardIds :
            guards[g].state = "live" =>
                guards[g].allocation_callbacks = p.allocation_callbacks}

\* The caller has taken note of what the last operation returned.
Ready == last = NoLast

\* The caller takes note of what the last operation returned and goes on;
\* `last` describes an operation only until then.
Continue ==
    /\ last # NoLast
    /\ last' = NoLast
    /\ UNCHANGED <<guards, nextGuard, nextRes, hands, destroyed, pc, bulk,
                   guarded, handedBack>>

\* The caller starts its next operation, or a running bulk constructor takes
\* its next step, once the last operation has been taken note of; the uses of
\* a value that has just been returned (DropRaw, MapErrDiscard) come right
\* after the operation that returned it.
Next ==
    \/ Ready /\ \E r \in Resources, p \in Usable :
          New(r, p.destroyer, p.allocation_callbacks)
    \/ Ready /\ \E n \in 0..MaxLen, p \in Usable :
          NewVec(n, p.destroyer, p.allocation_callbacks)
    \/ Ready /\ \E g \in GuardIds : Take(g)
    \/ Ready /\ \E g \in GuardIds : Drop(g)
    \/ DropRaw
    \/ Ready /\ \E g \in GuardIds : Pop(g)
    \/ Ready /\ \E g \in GuardIds : Destroyer(g)
    \/ Ready /\ \E g \in GuardIds : AllocationCallbacks(g)
    \/ Ready /\ \E g \in GuardIds : Deref(g)
    \/ Ready /\ \E g \in GuardIds : DerefMut(g)
    \/ Ready /\ \E p \in Usable :
          StartTryNewFrom(p.destroyer, p.allocation_callbacks)
    \/ Ready /\ TryNewFromPush
    \/ Ready /\ \E e \in Errors : TryNewFromFail(e)
    \/ Ready /\ TryNewFromFinish
    \/ Ready /\ \E n \in 0..MaxLen, p \in Usable :
          StartTryNewWith(n, p.destroyer, p.allocation_callbacks)
    \/ Ready /\ TryNewWithWrap
    \/ Ready /\ \E e \in Errors : TryNewWithFail(e)
    \/ Ready /\ TryNewWithFinish
    \/ Ready /\ \E p \in Usable, outcome \in Outcomes :
          CreateGuarded(p.destroyer, p.allocation_callbacks, outcome)
    \/ Ready /\ \E p \in Usable, outcome \in Outcomes :
          CreateGuardedInstance(p.allocation_callbacks, outcome)
    \/ Ready /\ \E p \in Usable, outcome \in Outcomes :
          CreateGuardedDevice(p.allocation_callbacks, outcome)
    \/ Ready /\ \E p \in Usable, n \in 0..MaxLen, outcome \in Outcomes :
          CreateGuardedGraphicsPipelines(p.destroyer,
                       p.allocation_callbacks, n, outcome)
    \/ Ready /\ \E p \in Usable, n \in 0..MaxLen, outcome \in Outcomes :
          CreateGuardedComputePipelines(p.destroyer,
                       p.allocation_callbacks, n, outcome)
    \/ MapErrDiscard
    \/ Continue

Spec == Init /\ [][Next]_vars

\* A step of the loop of a running bulk constructor: try_new_from or
\* try_new_with pulls its next item, or leaves the loop.
BulkStep ==
    /\ Ready
    /\ \/ TryNewFromPush
       \/ \E e \in Errors : TryNewFromFail(e)
       \/ TryNewFromFinish
       \/ TryNewWithWrap
       \/ \E e \in Errors : TryNewWithFail(e)
       \/ TryNewWithFinish

\* The operations among which the progress of a bulk construction is
\* studied: the plain constructors, the ends of a guard's life, the bulk
\* constructors.  No operation of the caller starts while a bulk constructor
\* runs (each needs pc = "idle"), so the accesses and the convenience
\* constructors, which only act between two constructions, are left out.
BulkNext ==
    \/ Ready /\ \E r \in Resources, p \in Usable :
          New(r, p.destroyer, p.allocation_callbacks)
    \/ Ready /\ \E n \in 0..MaxLen, p \in Usable :
          NewVec(n, p.destroyer, p.allocation_callbacks)
    \/ Ready /\ \E g \in GuardIds : Take(g)
    \/ Ready /\ \E g \in GuardIds : Drop(g)
    \/ DropRaw
    \/ Ready /\ \E p \in Usable :
          StartTryNewFrom(p.destroyer, p.allocation_callbacks)
    \/ Ready /\ \E n \in 0..MaxLen, p \in Usable :
          StartTryNewWith(n, p.destroyer, p.allocation_callbacks)
    \/ Ready /\ TryNewFromPush
    \/ Ready /\ \E e \in Errors : TryNewFromFail(e)
    \/ Ready /\ TryNewFromFinish
    \/ Ready /\ TryNewWithWrap
    \/ Ready /\ \E e \in Errors : TryNewWithFail(e)
    \/ Ready /\ TryNewWithFinish
    \/ Continue

\* A bulk constructor is one function call: once called it keeps running its
\* loop, whose iterator and factory return on every call, until it returns.
FairSpec == Init /\ [][BulkNext]_vars /\ WF_vars(BulkStep)

----------------------------------------------------------------------------
\* Properties

\* The destroy calls that destroy the leaves of s first to last, every call
\* with the same destroyer and allocation callbacks.
Expected(s, destroyer, allocation_callbacks) ==
    [i \in 1..Len(s) |-> DestructorCalled(s[i], destroyer,
                                          allocation_callbacks)]

\* The leaves of the Ok items of an input, in input order.
RECURSIVE OkRes(_)
OkRes(input) ==
    IF input = <<>> THEN <<>>
    ELSE (IF Head(input).ok THEN <<Head(input).res>> ELSE <<>>)
         \o OkRes(Tail(input))

\* Every item of the input is Ok.
AllOk(input) == \A i \in 1..Len(input) : input[i].ok

\* The input is some Ok items followed by one Err: its first Err is its last
\* item.
FirstErrLast(input) ==
    /\ input # <<>>
    /\ ~input[Len(input)].ok
    /\ AllOk(SubSeq(input, 1, Len(input) - 1))

\* The indices 0 .. n-1 in ascending order.
Indices(n) == [i \in 1..n |-> i - 1]

\* The guards handed to the caller that hold leaf r now.
LiveHolders(r) ==
    {g \in GuardIds : /\ guards[g].state = "live"
                      /\ r \in Range(guards[g].opt[1].resource.elems)}

\* The number of guards, counting those local to a running bulk
\* constructor, that hold leaf r now.
Holders(r) ==
    Cardinality(LiveHolders(r))
    + (IF bulk.guard # None /\ r \in Range(bulk.guard[1].resource.elems)
       THEN 1 ELSE 0)
    + Cardinality({i \in 1..Len(bulk.resources) :
                     /\ bulk.resources[i] # None
                     /\ r \in Range(bulk.resources[i][1][1].resource.elems)})

\* C1: a guard that is dropped without having been taken destroys what it
\* holds exactly once: the drop makes one destroy call per held leaf, each
\* with the destroyer and the allocation callbacks supplied when the guard was
\* constructed, and every held leaf has then been destroyed once in all.
C1_DropDestroysExactlyOnce ==
    last.kind = "drop" =>
        /\ last.calls = Expected(last.held, last.destroyer,
                                 last.allocation_callbacks)
        /\ \A r \in Range(last.held) : destroyed[r] = 1

\* A single-resource guard built with allocation callbacks was dropped.
C1_Witness ==
    /\ last.kind = "drop"
    /\ last.shape = "single"
    /\ last.allocation_callbacks = "cbA"
    /\ Len(last.calls) = 1

\* C2: take() makes no destroy call, returns the held resource and leaves
\* the consumed guard empty; dropping the extracted raw value makes no
\* destroy call; a leaf that an extraction took out of guard management has
\* not been destroyed, whether its raw value was dropped or not.
C2_TakeSuppressesDestruction ==
    /\ last.kind = "take" =>
          /\ last.calls = <<>>
          /\ last.after = None
          /\ last.ret = last.held
          /\ Range(last.held) \subseteq hands
    /\ last.kind = "dropraw" =>
          /\ last.calls = <<>>
          /\ Range(last.held) \subseteq hands
    /\ \A r \in hands : destroyed[r] = 0

\* The only guard ever built, over a single leaf, was taken and the
\* extracted value was dropped raw.
C2_Witness ==
    /\ last.kind = "dropraw"
    /\ last.held = <<1>>
    /\ nextGuard = 1
    /\ nextRes = 1
    /\ handedBack[1] = 1
    /\ guards[1].state = "gone"
    /\ destroyed[1] = 0

\* C3 as stated: every leaf has been destroyed at most once, handed back to
\* the caller at most once, and never both.
C3_Original ==
    \A r \in Resources :
        /\ destroyed[r] <= 1
        /\ handedBack[r] <= 1
        /\ ~(destroyed[r] >= 1 /\ handedBack[r] >= 1)

\* C3 amended: every leaf has been destroyed at most once and is held by at
\* most one guard at a time; every time it was put under a guard it is still
\* held, or was destroyed, or was handed back, exactly one of the three, so
\* that no guarding ended in both a destroy call and a hand-back; a destroyed
\* leaf is held by no guard and is not out of guard management, and a leaf
\* out of guard management is held by no guard.
C3_OncePerGuarding ==
    \A r \in Resources :
        LET holders == Holders(r)
        IN  /\ destroyed[r] <= 1
            /\ holders <= 1
            /\ destroyed[r] + handedBack[r] + holders = guarded[r]
            /\ destroyed[r] = 1 => (holders = 0 /\ r \notin hands)
            /\ r \in hands => holders = 0

\* A leaf was handed back by take(), put under a new guard and destroyed by
\* that guard.
C3_Witness ==
    \E r \in Resources :
        /\ destroyed[r] = 1
        /\ handedBack[r] = 1
        /\ guarded[r] = 2

\* C4: when try_new_from meets its first Err, it destroys exactly the leaves
\* of the Ok items before it, once each, first to last, each with the
\* destroyer and the allocation callbacks passed to try_new_from.
C4_TryNewFromRollback ==
    (last.kind = "from" /\ last.status = "failed") =>
        /\ FirstErrLast(last.input)
        /\ last.calls = Expected(OkRes(last.input), last.destroyer,
                                 last.allocation_callbacks)
        /\ \A r \in Range(OkRes(last.input)) : destroyed[r] = 1

\* try_new_from failed after two Ok items.
C4_Witness ==
    /\ last.kind = "from"
    /\ last.status = "failed"
    /\ Len(last.input) = 3
    /\ Len(last.calls) = 2

\* C5: try_new_from returns the error of the first Err item it pulls and
\* pulls nothing after it: while the loop runs every pulled item is Ok, and
\* when it has failed the Err is the last item that was pulled.
C5_TryNewFromFirstError ==
    /\ pc = "from" =>
          /\ AllOk(bulk.input)
          /\ bulk.pulled = Len(bulk.input)
    /\ (last.kind = "from" /\ last.status = "failed") =>
          /\ FirstErrLast(last.input)
          /\ last.err = last.input[Len(last.input)].err
          /\ last.pulled = Len(last.input)

\* try_new_from failed with "oh no" on its second item.
C5_Witness ==
    /\ last.kind = "from"
    /\ last.status = "failed"
    /\ last.err = "oh no"
    /\ last.pulled = 2

\* C6: when the factory of try_new_with fails for the first time, the leaves
\* produced for the lower indices are destroyed once each, in ascending index
\* order, each with the destroyer and the allocation callbacks passed to
\* try_new_with.
C6_TryNewWithRollback ==
    (last.kind = "with" /\ last.status = "failed") =>
        /\ last.held = OkRes(last.input)
        /\ last.calls = Expected(OkRes(last.input), last.destroyer,
                                 last.allocation_callbacks)
        /\ \A r \in Range(OkRes(last.input)) : destroyed[r] = 1

\* try_new_with failed at index 2 after producing two leaves.
C6_Witness ==
    /\ last.kind = "with"
    /\ last.status = "failed"
    /\ Len(last.factoryCalls) = 3
    /\ Len(last.calls) = 2

\* C7: when the factory fails at index k, try_new_with returns that error,
\* the factory has been called for the indices 0 .. k only, and exactly the k
\* leaves of the lower indices were constructed and destroyed.
C7_TryNewWithFirstError ==
    /\ pc = "with" =>
          /\ AllOk(bulk.input)
          /\ bulk.factoryCalls = Indices(Len(bulk.input))
          /\ Len(bulk.input) <= Len(bulk.resources)
    /\ (last.kind = "with" /\ last.status = "failed") =>
          /\ FirstErrLast(last.input)
          /\ last.err = last.input[Len(last.input)].err
          /\ last.factoryCalls = Indices(Len(last.input))
          /\ Len(last.input) <= last.n
          /\ Len(last.held) = Len(last.input) - 1
          /\ Len(last.calls) = Len(last.input) - 1

\* try_new_with for an array of three failed with "oh no" at index 1.
C7_Witness ==
    /\ last.kind = "with"
    /\ last.status = "failed"
    /\ last.err = "oh no"
    /\ last.n = 3
    /\ last.factoryCalls = <<0, 1>>

\* C8: when the factory succeeds for every index, try_new_with calls it once
\* per index in ascending order, makes no destroy call, and returns a guard
\* over the array whose element i is the leaf produced for index i, with the
\* destroyer and the allocation callbacks it was given.
C8_TryNewWithSuccess ==
    (last.kind = "with" /\ last.status = "complete") =>
        /\ AllOk(last.input)
        /\ Len(last.input) = last.n
        /\ last.factoryCalls = Indices(last.n)
        /\ last.calls = <<>>
        /\ \A r \in Range(OkRes(last.input)) : destroyed[r] = 0
        /\ guards[last.guard].state = "live"
        /\ guards[last.guard].opt =
              GuardedResource_new(Array(OkRes(last.input)), last.destroyer,
                                  last.allocation_callbacks)

\* try_new_with built an array guard of three elements.
C8_Witness ==
    /\ last.kind = "with"
    /\ last.status = "complete"
    /\ last.n = 3

\* C9: dropping an array guard destroys all of its elements, once each, in
\* ascending index order, every call with the destroyer and the allocation
\* callbacks of the guard.
C9_ArrayDropAscending ==
    (last.kind = "drop" /\ last.shape = "array") =>
        /\ Len(last.calls) = Len(last.held)
        /\ \A i \in 1..Len(last.held) :
              /\ last.calls[i] = DestructorCalled(last.held[i],
                    last.destroyer, last.allocation_callbacks)
              /\ destroyed[last.held[i]] = 1

\* An array guard of three elements was dropped.
C9_Witness ==
    /\ last.kind = "drop"
    /\ last.shape = "array"
    /\ Len(last.held) = 3
    /\ Len(last.calls) = 3

\* C10: pop() on a Vec guard hands the last element to the caller without a
\* destroy call and takes it out of the guard; the guard holds no element
\* that was removed from it, and its drop destroys the remaining elements,
\* once each and first to last, and none of the removed ones.
C10_PopRemovesFromManagement ==
    /\ (last.kind = "pop" /\ last.ret # None) =>
          /\ last.ret = Some(last.held[Len(last.held)])
          /\ last.calls = <<>>
          /\ last.ret[1] \in hands
          /\ destroyed[last.ret[1]] = 0
          /\ guards[last.guard].opt[1].resource.elems =
                SubSeq(last.held, 1, Len(last.held) - 1)
    /\ \A g \in GuardIds :
          guards[g].state = "live" =>
             guards[g].removed
                \cap Range(guards[g].opt[1].resource.elems) = {}
    /\ (last.kind = "drop" /\ last.shape = "vec") =>
          /\ Targets(last.calls) = last.held
          /\ Range(Targets(last.calls)) \cap last.removed = {}
          /\ \A r \in Range(last.held) : destroyed[r] = 1

\* A Vec guard of three lost its last element to pop() and was dropped: the
\* two remaining elements were destroyed.
C10_Witness ==
    /\ last.kind = "drop"
    /\ last.shape = "vec"
    /\ last.removed = {3}
    /\ last.held = <<1, 2>>
    /\ Len(last.calls) = 2

\* C11: when every item of its input is Ok, try_new_from returns a guard over
\* a Vec that is as long as the input and whose element i is the resource of
\* input item i, with the destroyer and the allocation callbacks it was
\* given; the construction makes no destroy call.
C11_TryNewFromSuccess ==
    (last.kind = "from" /\ last.status = "complete") =>
        /\ AllOk(last.input)
        /\ guards[last.guard].state = "live"
        /\ guards[last.guard].kind = "vec"
        /\ LET elems == guards[last.guard].opt[1].resource.elems
           IN  /\ Len(elems) = Len(last.input)
               /\ \A i \in 1..Len(elems) : elems[i] = last.input[i].res
        /\ guards[last.guard].opt[1].destroyer = last.destroyer
        /\ guards[last.guard].opt[1].allocation_callbacks =
              last.allocation_callbacks
        /\ last.calls = <<>>
        /\ \A i \in 1..Len(last.input) : destroyed[last.input[i].res] = 0

\* try_new_from built a Vec guard from three Ok items.
C11_Witness ==
    /\ last.kind = "from"
    /\ last.status = "complete"
    /\ Len(last.input) = 3
    /\ guards[last.guard].opt[1].resource.elems = <<1, 2, 3>>

\* The operation that returned last ran the composite destroy of a container
\* of the given shape: a guard over it was dropped, or (for a Vec) the local
\* guard of a failing try_new_from was.
CompositeDestroyed(shape) ==
    /\ last.shape = shape
    /\ \/ last.kind = "drop"
       \/ last.kind = "from" /\ last.status = "failed"

\* C12: the composite destroy of a Vec and of an array destroys every element
\* of the container, lowest index first, and passes the same destroyer and
\* the same allocation callbacks, those it was called with, to every
\* element's destroy.
C12_CompositeDestroyAscending ==
    \A shape \in {"vec", "array"} :
        CompositeDestroyed(shape) =>
            /\ Len(last.calls) = Len(last.held)
            /\ \A i \in 1..Len(last.calls) :
                  /\ last.calls[i].res = last.held[i]
                  /\ last.calls[i].destroyer = last.destroyer
                  /\ last.calls[i].allocation_callbacks =
                        last.allocation_callbacks
                  /\ last.calls[i].destroyer = last.calls[1].destroyer
                  /\ last.calls[i].allocation_callbacks =
                        last.calls[1].allocation_callbacks

\* A Vec guard of three elements built with allocation callbacks was
\* dropped with all of its elements.
C12_Witness ==
    /\ last.kind = "drop"
    /\ last.shape = "vec"
    /\ last.allocation_callbacks = "cbA"
    /\ last.removed = {}
    /\ Len(last.calls) = 3

\* The leaves destroyed by the first i calls of the last operation.
DestroyedUpTo(i) == {last.calls[j].res : j \in 1..i}

\* C13 as stated: during and after the composite destroy of a Vec or of an
\* array, the container holds no element that has already been destroyed.
C13_Original ==
    \A shape \in {"vec", "array"} :
        CompositeDestroyed(shape) =>
            /\ \A i \in 1..Len(last.calls) :
                  Range(last.during[i]) \cap DestroyedUpTo(i) = {}
            /\ Range(last.after[1].resource.elems)
                  \cap DestroyedUpTo(Len(last.calls)) = {}

\* C13 amended: the composite destroy of a Vec takes the elements out of the
\* Vec, which holds no destroyed element during the operation and is empty
\* after it; the composite destroy of an array removes nothing, the array
\* holds all of its elements during and after the operation.
C13_VecRemovesArrayKeeps ==
    /\ CompositeDestroyed("vec") =>
          /\ Len(last.during) = Len(last.calls)
          /\ \A i \in 1..Len(last.calls) :
                Range(last.during[i]) \cap DestroyedUpTo(i) = {}
          /\ last.after[1].resource.elems = <<>>
    /\ CompositeDestroyed("array") =>
          /\ Len(last.during) = Len(last.calls)
          /\ \A i \in 1..Len(last.calls) : last.during[i] = last.held
          /\ last.after[1].resource.elems = last.held

\* An array guard of two elements was dropped: the array still holds both.
C13_Witness ==
    /\ last.kind = "drop"
    /\ last.shape = "array"
    /\ Len(last.during) = 2
    /\ Len(last.after[1].resource.elems) = 2

\* C14 as stated: after its destroy the scope-exit path has marked the guard
\* consumed, so that running it again on what it left makes no destroy call.
C14_Original ==
    last.kind = "drop" =>
        /\ last.after = None
        /\ GuardedResource_drop(last.after).calls = <<>>

\* C14 amended: the scope-exit path destroys only if the guard's option is
\* filled: on the guard consumed by take() it makes no destroy call, on a
\* guard that holds its resource it makes the destroy calls and leaves the
\* option filled.  It runs once per guard because the guard is gone
\* afterwards: a guard that was dropped or taken stays gone, and nothing it
\* held is destroyed through it again.
C14_DropChecksOptionRunsOnce ==
    /\ [](/\ last.kind = "drop" =>
              /\ last.after # None
              /\ Len(last.calls) = Len(last.held)
              /\ guards[last.guard] = Gone
          /\ last.kind = "take" =>
              /\ last.after = None
              /\ GuardedResource_drop(last.after).calls = <<>>
              /\ guards[last.guard] = Gone)
    /\ [][\A g \in GuardIds :
             guards[g].state = "gone" => guards'[g] = Gone]_vars

\* A guard over a single leaf was dropped; its option is still filled.
C14_Witness ==
    /\ last.kind = "drop"
    /\ last.shape = "single"
    /\ last.after # None
    /\ guards[last.guard] = Gone

\* The operation that returned last was a convenience constructor for one
\* resource.
CreateReturned ==
    last.kind \in {"create", "create_instance", "create_device"}

\* C15: a convenience constructor calls one creation primitive.  When the
\* primitive succeeds, the caller gets a live guard over the created
\* resource that stores the allocation callbacks the primitive received, and
\* a drop of that guard passes them to every destroy call; when it fails,
\* the constructor returns the primitive's error, and the call has built no
\* guard and made no destroy call.
C15_CreateGuarded ==
    /\ [](CreateReturned =>
            /\ Len(last.primitive) = 1
            /\ last.calls = <<>>
            /\ last.status = "complete" =>
                  /\ last.input[1].ok
                  /\ guards[last.guard].state = "live"
                  /\ guards[last.guard].opt =
                        GuardedResource_new(
                            [kind |-> last.shape,
                             elems |-> <<last.input[1].res>>],
                            last.destroyer, last.primitive[1])
                  /\ last.shape =
                        (IF last.kind = "create" THEN "single" ELSE "context")
                  /\ destroyed[last.input[1].res] = 0
                  /\ LET d == GuardedResource_drop(guards[last.guard].opt)
                     IN  /\ Len(d.calls) = 1
                         /\ d.calls[1].allocation_callbacks =
                               last.primitive[1]
            /\ last.status = "failed" =>
                  /\ ~last.input[1].ok
                  /\ last.err = last.input[1].err
                  /\ last.guard = 0)
    /\ [][(CreateReturned' /\ last'.status = "failed") =>
             /\ guards' = guards
             /\ nextGuard' = nextGuard
             /\ destroyed' = destroyed]_vars

\* A device method created a resource with allocation callbacks and returned
\* it guarded.
C15_Witness ==
    /\ last.kind = "create"
    /\ last.status = "complete"
    /\ last.primitive = <<"cbA">>
    /\ guards[last.guard].state = "live"

\* C16: when create_guarded_graphics_pipelines or
\* create_guarded_compute_pipelines fails, the pipelines that come with the
\* error are held by a live Vec guard with the device and the allocation
\* callbacks of the call, and none is destroyed yet; when the caller then
\* discards that guard and keeps the error, every returned pipeline is
\* destroyed once, first to last, with that device and those callbacks, and
\* none is left with the caller.
C16_FailedPipelinesAreGuarded ==
    /\ (/\ last.kind \in {"graphics_pipelines", "compute_pipelines"}
        /\ last.status = "failed") =>
          /\ last.err = last.input[1].err
          /\ guards[last.guard].state = "live"
          /\ guards[last.guard].opt =
                GuardedResource_new(Vec(last.input[1].res), last.destroyer,
                                    last.primitive[1])
          /\ \A r \in Range(last.input[1].res) :
                destroyed[r] = 0 /\ Holders(r) = 1
    /\ last.kind = "map_err" =>
          /\ last.err = last.input[1].err
          /\ last.calls = Expected(last.input[1].res, last.destroyer,
                                   last.allocation_callbacks)
          /\ guards[last.guard] = Gone
          /\ \A r \in Range(last.input[1].res) :
                destroyed[r] = 1 /\ r \notin hands /\ Holders(r) = 0

\* A pipelines constructor failed with two pipelines created; the caller
\* discarded them with the error value and both were destroyed.
C16_Witness ==
    /\ last.kind = "map_err"
    /\ Len(last.input[1].res) = 2
    /\ Len(last.calls) = 2
    /\ last.allocation_callbacks = "cbA"

\* C17: a guard that holds its resource answers destroyer() with the
\* destroyer and allocation_callbacks() with the allocation callbacks that
\* were passed when it was built, whatever was done through it since; a call
\* of either accessor leaves the guard live with the same option (resource,
\* destroyer, callbacks).
C17_AccessorsReturnConstructorValues ==
    /\ \A g \in GuardIds :
          guards[g].state = "live" =>
            LET d == GuardedResource_destroyer(guards[g].opt)
                a == GuardedResource_allocation_callbacks(guards[g].opt)
            IN  /\ ~d.panic /\ d.ret = Some(guards[g].destroyer)
                /\ d.self = guards[g].opt
                /\ ~a.panic /\ a.ret = Some(guards[g].allocation_callbacks)
                /\ a.self = guards[g].opt
    /\ last.kind = "destroyer" => last.ret = Some(last.destroyer)
    /\ last.kind = "allocation_callbacks" =>
          last.ret = Some(last.allocation_callbacks)
    /\ last.kind \in {"destroyer", "allocation_callbacks"} =>
          /\ guards[last.guard].state = "live"
          /\ guards[last.guard].opt = last.before
          /\ last.before # None

\* allocation_callbacks() was called on a Vec guard built with callbacks,
\* after an element had been popped from it, and returned those callbacks.
C17_Witness ==
    /\ last.kind = "allocation_callbacks"
    /\ last.ret = Some("cbA")
    /\ guards[last.guard].removed # {}

\* The kinds of access to the held resource through a guard: a read, a write
\* that replaces the resource, a pop through DerefMut.
AccessKinds == {"deref", "deref_mut", "pop"}

\* C18: a read or a write of the held resource through a guard leaves the
\* guard live with the destroyer and the allocation callbacks it was built
\* with and makes no destroy call; a read returns the held resource and
\* changes nothing; after a write, a read through the guard returns the
\* written value, and the value that was there went to the caller.  No step
\* that is an access changes the destroy counts, any other guard, or the
\* state, destroyer or callbacks of the accessed guard.
C18_AccessKeepsOwnership ==
    /\ [](
           /\ last.kind \in AccessKinds =>
              /\ guards[last.guard].state = "live"
              /\ guards[last.guard].opt # None
              /\ guards[last.guard].opt[1].destroyer
                    = guards[last.guard].destroyer
              /\ guards[last.guard].opt[1].allocation_callbacks
                    = guards[last.guard].allocation_callbacks
              /\ last.calls = <<>>
           /\ last.kind = "deref" =>
              /\ guards[last.guard].opt = last.before
              /\ last.ret = last.before[1].resource.elems
           /\ last.kind = "deref_mut" =>
              /\ GuardedResource_deref(guards[last.guard].opt).ret
                    = Some(Single(last.input[1]))
              /\ guards[last.guard].opt[1].destroyer
                    = last.before[1].destroyer
              /\ guards[last.guard].opt[1].allocation_callbacks
                    = last.before[1].allocation_callbacks
              /\ last.ret = last.before[1].resource.elems
              /\ Range(last.ret) \subseteq hands)
    /\ [][(Ready /\ last'.kind \in AccessKinds) =>
            /\ destroyed' = destroyed
            /\ nextGuard' = nextGuard
            /\ \A g \in GuardIds :
                  /\ (g # last'.guard => guards'[g] = guards[g])
                  /\ guards'[g].state = guards[g].state
                  /\ guards'[g].kind = guards[g].kind
                  /\ guards'[g].destroyer = guards[g].destroyer
                  /\ guards'[g].allocation_callbacks
                        = guards[g].allocation_callbacks]_vars

\* The resource of a guard was replaced through the guard and then read
\* through it: the read returned the leaf that was written.
C18_Witness ==
    /\ last.kind = "deref"
    /\ last.shape = "single"
    /\ guards[last.guard].removed # {}
    /\ Range(last.ret) \cap guards[last.guard].removed = {}
    /\ guards[last.guard].allocation_callbacks = "cbA"

\* C19: on the guard that take() has consumed, whose option is None, every
\* accessor, access and extraction panics in unwrap, returns nothing, leaves
\* the option None and makes no destroy call, and the drop of that guard
\* makes no destroy call either; the taken leaves are not destroyed.
C19_MisuseFailsFast ==
    last.kind = "take" =>
        LET c == last.after
            d == GuardedResource_destroyer(c)
            a == GuardedResource_allocation_callbacks(c)
            r == GuardedResource_deref(c)
            t == GuardedResource_take(c)
        IN  /\ c = None
            /\ d.panic /\ d.ret = None /\ d.self = None
            /\ a.panic /\ a.ret = None /\ a.self = None
            /\ r.panic /\ r.ret = None /\ r.self = None
            /\ \A v \in Resources :
                  LET w == GuardedResource_deref_mut(c, Single(v))
                  IN  /\ w.panic /\ w.ret = None /\ w.self = None
                      /\ w.calls = <<>>
            /\ t.panic /\ t.ret = None /\ t.self = None /\ t.calls = <<>>
            /\ GuardedResource_drop(c).calls = <<>>
            /\ guards[last.guard] = Gone
            /\ \A x \in Range(last.ret) : destroyed[x] = 0

\* take() consumed a Vec guard of two leaves built with callbacks.
C19_Witness ==
    /\ last.kind = "take"
    /\ last.after = None
    /\ Len(last.ret) = 2
    /\ last.allocation_callbacks = "cbA"

\* C20: a bulk construction that has started ends: the constructor returns,
\* for the guard slot of this attempt, either complete with a live guard or
\* failed with an error and no guard.  When it returns failed, every leaf it
\* had received is destroyed once and nothing of the attempt is left; a
\* running attempt works on the newest guard slot, which no finished
\* attempt has, and a finished attempt's slot never becomes unused again, so
\* no later step belongs to a finished attempt.
C20_BulkConstructionEnds ==
    /\ (pc # "idle") ~> (pc = "idle")
    /\ [](
           /\ pc # "idle" =>
              /\ bulk.id = nextGuard
              /\ guards[bulk.id].state = "unused"
              /\ last = NoLast
           /\ (pc = "idle" => bulk = NoBulk)
           /\ (last.kind \in {"from", "with"} /\ last.status = "failed") =>
              /\ last.err \in Errors
              /\ guards[last.guard] = Gone
              /\ \A r \in Range(OkRes(last.input)) :
                    destroyed[r] = 1 /\ Holders(r) = 0 /\ r \notin hands
              /\ Targets(last.calls) = OkRes(last.input)
           /\ (last.kind \in {"from", "with"} /\ last.status = "complete") =>
              /\ guards[last.guard].state = "live"
              /\ last.err = "")
    /\ [][
           /\ (pc # "idle" /\ pc' = "idle") =>
              /\ last'.kind = pc
              /\ last'.guard = bulk.id
              /\ last'.status \in {"complete", "failed"}
              /\ (last'.status = "complete" <=>
                    guards'[bulk.id].state = "live")
              /\ (last'.status = "failed" <=> guards'[bulk.id] = Gone)
           /\ (pc # "idle" /\ pc' # "idle") =>
              /\ pc' = pc
              /\ bulk'.id = bulk.id
              /\ Len(bulk'.input) = Len(bulk.input) + 1
           /\ \A g \in GuardIds :
                 (guards[g].state # "unused" => guards'[g].state # "unused")
       ]_vars

\* try_new_with for two elements failed on its second factory call, after
\* the first had produced a leaf.
C20_Witness ==
    /\ last.kind = "with"
    /\ last.status = "failed"
    /\ last.n = 2
    /\ Len(OkRes(last.input)) = 1
    /\ pc = "idle"

\* C21: take() makes no destroy call and leaves the taken leaves undestroyed;
\* a guard built with new() around what take() returned, with the taken
\* guard's destroyer and allocation callbacks, is the guard that was taken,
\* so its drop makes the destroy calls the drop of the original would have
\* made.  When a guard around a leaf that was taken from an earlier guard is
\* dropped, the leaf is destroyed by that drop, once in all, with the
\* destroyer and the callbacks of the guard that is dropped.
C21_TakeThenNewRoundTrip ==
    /\ last.kind = "take" =>
          LET resource == [kind |-> last.shape, elems |-> last.ret]
              again == GuardedResource_new(resource, last.destroyer,
                                           last.allocation_callbacks)
          IN  /\ last.calls = <<>>
              /\ \A r \in Range(last.ret) : destroyed[r] = 0
              /\ again = last.before
              /\ GuardedResource_drop(again).calls
                    = GuardedResource_drop(last.before).calls
              /\ GuardedResource_drop(again).calls
                    = Expected(last.ret, last.destroyer,
                               last.allocation_callbacks)
    /\ (/\ last.kind = "drop"
        /\ \E r \in Range(last.held) : handedBack[r] >= 1) =>
          /\ last.calls = Expected(last.held, last.destroyer,
                                   last.allocation_callbacks)
          /\ \A r \in Range(last.held) : destroyed[r] = 1

\* A leaf was taken from a guard built with callbacks, put under a new
\* guard with the same destroyer and callbacks, and that guard was dropped.
C21_Witness ==
    /\ last.kind = "drop"
    /\ last.shape = "single"
    /\ last.allocation_callbacks = "cbA"
    /\ \E r \in Range(last.held) :
          handedBack[r] = 1 /\ guarded[r] = 2 /\ destroyed[r] = 1

\* C22: an instance or a device comes guarded with the destroyer `()`; the
\* drop of its guard makes one destroy call, the object's own
\* destroy_instance / destroy_device, with the allocation callbacks the
\* guard stores, after which the object has been destroyed once; whatever
\* destroyer value destroy_with is given, it makes that same call.
C22_ContextDestroysItself ==
    /\ (/\ last.kind \in {"create_instance", "create_device"}
        /\ last.status = "complete") =>
          LET held == guards[last.guard].opt[1]
          IN  /\ held.destroyer = Unit
              /\ held.resource = Context(last.input[1].res)
              /\ \A d \in {Unit} \cup {p.destroyer : p \in Params} :
                    destroy_with(held.resource, d,
                                 held.allocation_callbacks).calls
                      = <<DestructorCalled(last.input[1].res, Unit,
                                           last.primitive[1])>>
    /\ (last.kind = "drop" /\ last.shape = "context") =>
          /\ last.destroyer = Unit
          /\ Len(last.held) = 1
          /\ last.calls = <<DestructorCalled(last.held[1], Unit,
                                             last.allocation_callbacks)>>
          /\ destroyed[last.held[1]] = 1
          /\ guards[last.guard] = Gone

\* The guard of an instance or a device created with allocation callbacks
\* was dropped.
C22_Witness ==
    /\ last.kind = "drop"
    /\ last.shape = "context"
    /\ last.allocation_callbacks = "cbA"
    /\ Len(last.calls) = 1

\* C23: the option of every guard the caller holds is Some, so none of
\* destroyer(), allocation_callbacks(), deref and deref_mut panics on it; the
\* guards local to a running bulk constructor hold Some as well.  The option
\* is None only in the guard that take() has consumed, which is gone from
\* the caller; a drop leaves the option Some in a guard that is gone too.
C23_OptionIsSomeWhileObservable ==
    /\ \A g \in GuardIds :
          /\ guards[g].state = "live" =>
                /\ guards[g].opt # None
                /\ ~GuardedResource_destroyer(guards[g].opt).panic
                /\ ~GuardedResource_allocation_callbacks(guards[g].opt).panic
                /\ ~GuardedResource_deref(guards[g].opt).panic
                /\ \A v \in Resources :
                      ~GuardedResource_deref_mut(guards[g].opt,
                                                 Single(v)).panic
          /\ guards[g].state # "live" => guards[g] \in {Unused, Gone}
    /\ pc = "from" => bulk.guard # None
    /\ pc = "with" =>
          \A i \in 1..Len(bulk.resources) :
              bulk.resources[i] # None => bulk.resources[i][1] # None
    /\ last.kind = "take" =>
          /\ last.before # None
          /\ last.after = None
          /\ guards[last.guard] = Gone
    /\ last.kind = "drop" =>
          /\ last.after # None
          /\ guards[last.guard] = Gone
    /\ last.kind \in {"destroyer", "allocation_callbacks", "deref",
                      "deref_mut"} =>
          /\ last.before # None
          /\ guards[last.guard].opt # None

\* take() consumed one guard, leaving None in it, while the caller holds
\* another guard that was written through before.
C23_Witness ==
    /\ last.kind = "take"
    /\ last.after = None
    /\ \E g \in GuardIds :
          /\ guards[g].state = "live"
          /\ guards[g].removed # {}
          /\ guards[g].opt # None

\* C24: while try_new_from runs, whenever it is about to pull its next
\* item, at position k, every item pulled so far was Ok and the local guard
\* holds exactly the resources of positions 0..k-1 in input order, none of
\* them destroyed and each held by that guard alone; when the item at
\* position k is an Err, that is what the guard held at that moment.
C24_PushBeforeNextPull ==
    /\ pc = "from" =>
          LET elems == bulk.guard[1].resource.elems
          IN  /\ bulk.pulled = Len(bulk.input)
              /\ AllOk(bulk.input)
              /\ Len(elems) = bulk.pulled
              /\ \A i \in 1..Len(elems) : elems[i] = bulk.input[i].res
              /\ \A r \in Range(elems) : destroyed[r] = 0 /\ Holders(r) = 1
    /\ (last.kind = "from" /\ last.status = "failed") =>
          /\ Len(last.held) = last.pulled - 1
          /\ \A i \in 1..Len(last.held) : last.held[i] = last.input[i].res
          /\ ~last.input[last.pulled].ok

\* try_new_from has pulled two Ok items and is about to pull the third.
C24_Witness ==
    /\ pc = "from"
    /\ bulk.pulled = 2
    /\ Len(bulk.guard[1].resource.elems) = 2
    /\ bulk.allocation_callbacks = "cbA"

\* C25: while try_new_with runs, before the factory call for index k, the
\* slots of the indices 0..k-1 each hold a guard over the one resource the
\* factory produced for that index, with the destroyer and the allocation
\* callbacks of the call, and the other slots are empty; every resource
\* produced so far is held by that one guard and by nothing else, is not
\* destroyed and is not with the caller.  The transient guards are taken
\* only when the factory has been called for all indices and every call
\* succeeded; when a call fails none was taken.
C25_TransientGuardsUntilAllSucceed ==
    /\ pc = "with" =>
          LET k == Len(bulk.factoryCalls)
          IN  /\ bulk.factoryCalls = Indices(k)
              /\ Len(bulk.input) = k
              /\ AllOk(bulk.input)
              /\ k <= Len(bulk.resources)
              /\ \A i \in 1..Len(bulk.resources) :
                    bulk.resources[i] =
                      (IF i <= k
                       THEN Some(GuardedResource_new(
                                Single(bulk.input[i].res), bulk.destroyer,
                                bulk.allocation_callbacks))
                       ELSE None)
              /\ \A i \in 1..k :
                    LET r == bulk.input[i].res
                    IN  /\ Holders(r) = 1
                        /\ LiveHolders(r) = {}
                        /\ destroyed[r] = 0
                        /\ handedBack[r] = 0
                        /\ r \notin hands
    /\ (last.kind = "with" /\ last.status = "complete") =>
          /\ last.factoryCalls = Indices(last.n)
          /\ Len(last.input) = last.n
          /\ AllOk(last.input)
          /\ last.held = OkRes(last.input)
    /\ (last.kind = "with" /\ last.status = "failed") =>
          /\ last.held = OkRes(last.input)
          /\ \A r \in Range(last.held) :
                handedBack[r] = 0 /\ destroyed[r] = 1

\* try_new_with for three elements has wrapped two resources and is about
\* to call the factory for the third.
C25_Witness ==
    /\ pc = "with"
    /\ Len(bulk.resources) = 3
    /\ Len(bulk.factoryCalls) = 2
    /\ bulk.resources[2] # None
    /\ bulk.resources[3] = None

\* C26: for the construction results that a bulk constructor has just
\* consumed, try_new_from and try_new_with (for as many elements) return the
\* same way, complete or failed with the same error, make the same destroy
\* calls while they run, and, when complete, return guards over the same
\* elements in the same order, with the same destroyer and allocation
\* callbacks, whose drops make the same destroy calls, first element to
\* last; the constructor that ran returned and destroyed just so.
C26_ArrayAndVecSamePolicy ==
    last.kind \in {"from", "with"} =>
        LET n == IF last.kind = "with" THEN last.n ELSE Len(last.input)
            F == try_new_from(last.input, last.destroyer,
                              last.allocation_callbacks)
            W == try_new_with(n, last.input, last.destroyer,
                              last.allocation_callbacks)
        IN  /\ F.ok = W.ok
            /\ F.ok = (last.status = "complete")
            /\ F.err = W.err
            /\ F.err = last.err
            /\ F.calls = W.calls
            /\ F.calls = last.calls
            /\ F.ok =>
                  /\ F.guard[1].resource.elems = W.guard[1].resource.elems
                  /\ F.guard[1].resource.elems = OkRes(last.input)
                  /\ F.guard[1].destroyer = W.guard[1].destroyer
                  /\ F.guard[1].allocation_callbacks
                        = W.guard[1].allocation_callbacks
                  /\ GuardedResource_drop(F.guard).calls
                        = GuardedResource_drop(W.guard).calls
                  /\ GuardedResource_drop(F.guard).calls
                        = Expected(OkRes(last.input), last.destroyer,
                                   last.allocation_callbacks)
                  /\ guards[last.guard].opt =
                        (IF last.kind = "with" THEN W.guard ELSE F.guard)

\* try_new_with for three elements failed at its third factory call, with
\* allocation callbacks: try_new_from over the same three results fails with
\* the same error after the same two destroy calls.
C26_Witness ==
    /\ last.kind = "with"
    /\ last.status = "failed"
    /\ last.n = 3
    /\ Len(last.input) = 3
    /\ last.allocation_callbacks = "cbA"
    /\ Len(try_new_from(last.input, last.destroyer,
                        last.allocation_callbacks).calls) = 2

\* C27: a read of a Vec guard (its length, an element by index, an
\* iteration over its elements) gives the elements the guard holds, in
\* order, and leaves the guard as it was: the destroy calls its drop would
\* make are the same before and after, one per element, first to last, and
\* no element is with the caller.  A pop is what takes an element out: the
\* element it returns is with the caller and the drop would destroy the
\* others only.
C27_ReadsKeepVecElements ==
    /\ (last.kind = "deref" /\ last.shape = "vec") =>
          LET now == guards[last.guard].opt
              elems == last.before[1].resource.elems
          IN  /\ now = last.before
              /\ GuardedResource_drop(now).calls
                    = GuardedResource_drop(last.before).calls
              /\ Targets(GuardedResource_drop(now).calls) = elems
              /\ Vec_len(last.ret) = Len(elems)
              /\ \A i \in 0..(Len(elems) - 1) :
                    Vec_index(last.ret, i) = elems[i + 1]
              /\ Vec_iter(last.ret) = elems
              /\ Range(elems) \cap hands = {}
              /\ guards[last.guard].removed \cap Range(elems) = {}
    /\ (last.kind = "pop" /\ last.ret # None) =>
          LET now == guards[last.guard].opt
              elems == last.before[1].resource.elems
          IN  /\ last.ret = Some(elems[Len(elems)])
              /\ Targets(GuardedResource_drop(now).calls)
                    = SubSeq(elems, 1, Len(elems) - 1)
              /\ Range(last.ret) \subseteq hands
              /\ Range(last.ret) \subseteq guards[last.guard].removed

\* A Vec guard of three elements was read after one element had been popped
\* from it: the read gave the two elements that are left.
C27_Witness ==
    /\ last.kind = "deref"
    /\ last.shape = "vec"
    /\ Vec_len(last.ret) = 2
    /\ guards[last.guard].removed # {}

\* C28: a drop destroys what the guard holds when it runs.  The Vec guard of
\* try_new_from is built over an empty Vec; while the loop runs, and when it
\* leaves at an Err item, the drop of that guard destroys the resources
\* pushed through it so far, first pushed first.  Any drop destroys the
\* elements held at that moment, in order, and none of the leaves that were
\* overwritten or popped before; a write or a pop destroys nothing, and
\* afterwards the drop of the guard would destroy the value written, or the
\* elements left, and not the leaf that went to the caller.
C28_DropDestroysCurrentValue ==
    /\ pc = "from" =>
          /\ GuardedResource_new(Vec(<<>>), bulk.destroyer,
                                 bulk.allocation_callbacks)[1].resource.elems
                = <<>>
          /\ GuardedResource_drop(bulk.guard).calls
                = Expected(OkRes(bulk.input), bulk.destroyer,
                           bulk.allocation_callbacks)
    /\ (last.kind = "from" /\ last.status = "failed") =>
          /\ last.held = OkRes(last.input)
          /\ last.calls = Expected(last.held, last.destroyer,
                                   last.allocation_callbacks)
    /\ last.kind = "drop" =>
          /\ Targets(last.calls) = last.held
          /\ Range(last.held) \cap last.removed = {}
    /\ last.kind = "deref_mut" =>
          LET d == GuardedResource_drop(guards[last.guard].opt)
          IN  /\ last.calls = <<>>
              /\ Targets(d.calls) = last.input
              /\ Range(last.ret) \cap Range(Targets(d.calls)) = {}
              /\ \A r \in Range(last.ret) : destroyed[r] = 0
    /\ (last.kind = "pop" /\ last.ret # None) =>
          LET d == GuardedResource_drop(guards[last.guard].opt)
          IN  /\ Range(last.ret) \cap Range(Targets(d.calls)) = {}
              /\ \A r \in Range(last.ret) : destroyed[r] = 0
    /\ \A g \in GuardIds :
          guards[g].state = "live" =>
            LET d == GuardedResource_drop(guards[g].opt)
            IN  /\ Targets(d.calls) = guards[g].opt[1].resource.elems
                /\ Range(Targets(d.calls)) \cap guards[g].removed = {}

\* try_new_from left at an Err item after two resources had been pushed
\* through its guard, which was built over an empty Vec: the drop destroyed
\* the two, first pushed first.
C28_Witness ==
    /\ last.kind = "from"
    /\ last.status = "failed"
    /\ Len(last.held) = 2
    /\ Targets(last.calls) = last.held
    /\ last.allocation_callbacks = "cbA"

\* C29: try_new_from on an input that ends before its first item returns a
\* guard over an empty Vec, and try_new_with for an array of no elements
\* returns a guard over an empty array without a call of the factory;
\* neither makes a destroy call.  The drop of a guard over an empty Vec or
\* an empty array, whether it was built empty or emptied by pops, makes no
\* destroy call either.
C29_EmptyCollectionsCallNothing ==
    /\ (last.kind = "from" /\ last.input = <<>>) =>
          LET f == try_new_from(<<>>, last.destroyer,
                                last.allocation_callbacks)
          IN  /\ last.status = "complete"
              /\ last.calls = <<>>
              /\ f.ok
              /\ f.calls = <<>>
              /\ guards[last.guard].state = "live"
              /\ guards[last.guard].opt = f.guard
              /\ guards[last.guard].opt
                    = GuardedResource_new(Vec(<<>>), last.destroyer,
                                          last.allocation_callbacks)
              /\ GuardedResource_drop(guards[last.guard].opt).calls = <<>>
    /\ (last.kind = "with" /\ last.n = 0) =>
          LET f == try_new_with(0, <<>>, last.destroyer,
                                last.allocation_callbacks)
          IN  /\ last.status = "complete"
              /\ last.factoryCalls = <<>>
              /\ last.input = <<>>
              /\ last.calls = <<>>
              /\ f.ok
              /\ f.calls = <<>>
              /\ guards[last.guard].state = "live"
              /\ guards[last.guard].opt = f.guard
              /\ guards[last.guard].opt
                    = GuardedResource_new(Array(<<>>), last.destroyer,
                                          last.allocation_callbacks)
              /\ GuardedResource_drop(guards[last.guard].opt).calls = <<>>
    /\ (pc = "with" /\ bulk.resources = <<>>) => bulk.factoryCalls = <<>>
    /\ (last.kind = "drop" /\ last.shape \in {"vec", "array"}
                           /\ last.held = <<>>) =>
          /\ last.calls = <<>>
          /\ last.during = <<>>

\* A Vec guard that pops had emptied was dropped and no destroy call was
\* made.
C29_Witness ==
    /\ last.kind = "drop"
    /\ last.shape = "vec"
    /\ last.held = <<>>
    /\ last.removed # {}
    /\ last.calls = <<>>

====
